---- MODULE Spec2Model ----
(***************************************************************************)
(* Model of the thermo-hygrometer sketch TempHumidDisplay.ino (the later   *)
(* revision, lines 447-896): persisted configuration, min/max tracking,    *)
(* humidifier relay hysteresis, display-mode selection and blink phase.    *)
(***************************************************************************)
EXTENDS Integers, FiniteSets, Sequences, TLC

VARIABLES
    pc,                       \* "boot" before setup() has run, "loop" afterwards
    eeprom,                   \* the PersistentConfiguration stored at EEPROM address 0
    persistentConfiguration,  \* the in-memory PersistentConfiguration
    humidifierOn,             \* static bool humidifierOn
    relayPin,                 \* level last written to PIN_HUMIDIFIER_RELAY
    currentMode,              \* static DisplayMode currentMode
    modeSelectedTime,         \* static long modeSelectedTime
    liveData, minData, maxData,
    hasInitializedMinMax,     \* static local of updateSensorData
    brightness,               \* static local of onActionButton
    blinkShown,               \* what the most recent getBlinkStatus() returned
    setupWrites,              \* EEPROM.put calls made by the most recent setup()
    callParity,               \* parity of the number of handler calls since power-up
    display,                  \* what each of the eight display positions was last sent
    nextSensorSampling,       \* static unsigned long nextSensorSampling of loop()
    loopNow,                  \* unsigned long now of loop()
    loops,                    \* loop() iterations begun since power-up
    iterLog,                  \* updateSensorData and updateRelayStatus calls of the
                              \* loop() iteration begun most recently, in order
    lastSampleTime,           \* loop timestamp of the most recent sensor sample
    lastRelayUpdate,          \* humidity and configuration the most recent
                              \* updateRelayStatus() call of loop() worked on
    minSince, maxSince,       \* least and greatest reading since the most recent
                              \* reset of min and of max
    framesShown               \* what positions 3, 4, 7 and 8 showed at each frame of
                              \* the reset animation the most recent step presented

vars == <<pc, eeprom, persistentConfiguration, humidifierOn, relayPin,
          currentMode, modeSelectedTime, liveData, minData, maxData,
          hasInitializedMinMax, brightness, blinkShown, setupWrites, callParity,
          display, nextSensorSampling, loopNow, loops, iterLog, lastSampleTime,
          lastRelayUpdate, minSince, maxSince, framesShown>>

----------------------------------------------------------------------------
(* Program constants *)

HUMIDIFIER_THRESHOLD_STEPS == 2
HUMIDIFIER_THRESHOLD_MININUM == 60
EEPROM_MAGIC_NUMBER == 47806
BRIGHT_LEVEL == 8
BLINK_PERIOD == 1000
BLINK_HALF == 500
DEFAULT_LOWER == 80
DEFAULT_UPPER == 96
UPPER_LIMIT == 100

\* enum DisplayMode
live == 0
min == 1
max == 2
humidifierEnabled == 3
humidifierLowerOnThreshold == 4
humidifierUpperOffThreshold == 5
END == 6

Modes == live .. (END - 1)

----------------------------------------------------------------------------
(* Integer widths of the target: byte is 8 bits, int 16 bits, long 32 bits. *)
(* A 32-bit value is held as its two 16-bit halves <<high, low>>.           *)

ToByte(v) == v % (2^8)
ToInt(v) == LET u == v % (2^16) IN IF u >= 2^15 THEN u - 2^16 ELSE u
ToUnsignedInt(v) == v % (2^16)

Word == 2^16
ULong(high, low) == <<high, low>>

\* a - b in unsigned long arithmetic (modulo 2^32)
ULongMinus(a, b) ==
    LET low == a[2] - b[2]
        borrow == IF low < 0 THEN 1 ELSE 0
    IN  <<(a[1] - b[1] - borrow) % Word, low % Word>>

\* a + n in unsigned long arithmetic (modulo 2^32), for 0 <= n < 2^16
ULongPlus(a, n) ==
    LET low == a[2] + n
    IN  <<(a[1] + (low \div Word)) % Word, low % Word>>

\* a % m for an unsigned long a and 0 < m < 2^15
ULongMod(a, m) == (((a[1] % m) * (Word % m)) + a[2]) % m

\* unsigned long -> long and back: the 32 bits are kept as they are
ToLong(a) == a
ToUnsignedLong(a) == a

----------------------------------------------------------------------------
(* Persisted configuration *)

\* PersistentConfiguration(): the member initialisers of the struct
DefaultConfiguration ==
    [ magicNumber |-> ToInt(EEPROM_MAGIC_NUMBER),
      humidifierLowerOnThreshold |-> DEFAULT_LOWER,
      humidifierUpperOffThreshold |-> DEFAULT_UPPER,
      humidifierEnabled |-> TRUE ]

\* mutant: the int member is compared as a signed value
MagicNumberValidSigned(record) == record.magicNumber = EEPROM_MAGIC_NUMBER

\* persistentConfiguration.magicNumber != EEPROM_MAGIC_NUMBER, negated: the int
\* member is converted to unsigned int for the comparison with the literal 0xBABE
MagicNumberValid(record) == ToUnsignedInt(record.magicNumber) = EEPROM_MAGIC_NUMBER

\* EEPROM.put(0, record): the struct's five bytes (little-endian int, byte, byte, bool)
EepromPut(record) ==
    << ToUnsignedInt(record.magicNumber) % (2^8),
       ToUnsignedInt(record.magicNumber) \div (2^8),
       ToByte(record.humidifierLowerOnThreshold),
       ToByte(record.humidifierUpperOffThreshold),
       IF record.humidifierEnabled THEN 1 ELSE 0 >>

\* EEPROM.get(0, record): the five bytes read back into the struct
EepromGet(bytes) ==
    [ magicNumber |-> ToInt(bytes[1] + (2^8) * bytes[2]),
      humidifierLowerOnThreshold |-> bytes[3],
      humidifierUpperOffThreshold |-> bytes[4],
      humidifierEnabled |-> bytes[5] # 0 ]

\* An erased EEPROM reads 0xFF in every byte; a zeroed one reads 0x00.
ErasedEeprom == [i \in 1..5 |-> 2^8 - 1]
ZeroedEeprom == [i \in 1..5 |-> 0]

\* A record left by a build whose magic number was different ("change this to
\* provide a new default configuration on next startup")
StaleEeprom ==
    EepromPut([ magicNumber |-> ToInt(EEPROM_MAGIC_NUMBER - 1),
                humidifierLowerOnThreshold |-> 70,
                humidifierUpperOffThreshold |-> 90,
                humidifierEnabled |-> FALSE ])

\* What the EEPROM may hold when the firmware is first powered
InitialEeprom == { EepromPut(DefaultConfiguration), ErasedEeprom, ZeroedEeprom, StaleEeprom }

\* mutant: the defaults are written but not read back into memory
LoadConfigurationNoReload(store) ==
    LET loaded == EepromGet(store) IN
    IF ~MagicNumberValid(loaded)
    THEN <<EepromPut(DefaultConfiguration), loaded, 1>>
    ELSE <<store, loaded, 0>>

\* The EEPROM part of setup(): <<stored bytes, in-memory record, number of puts>>
LoadConfiguration(store) ==
    LET loaded == EepromGet(store) IN
    IF ~MagicNumberValid(loaded)
    THEN LET written == EepromPut(DefaultConfiguration)
         IN  <<written, EepromGet(written), 1>>
    ELSE <<store, loaded, 0>>

----------------------------------------------------------------------------
(* Threshold editing, mode selection, relay, blink phase, min/max tracking *)

\* mutant: the lower threshold wraps to 0 instead of the configured minimum
IncrementLowerThresholdToZero(cfg) ==
    LET bumped == [cfg EXCEPT !.humidifierLowerOnThreshold =
                                  ToByte(@ + HUMIDIFIER_THRESHOLD_STEPS)]
    IN  IF bumped.humidifierLowerOnThreshold >= bumped.humidifierUpperOffThreshold
        THEN [bumped EXCEPT !.humidifierLowerOnThreshold = 0]
        ELSE bumped

\* mutant: the lower threshold wraps only when it exceeds the upper threshold
IncrementLowerThresholdLate(cfg) ==
    LET bumped == [cfg EXCEPT !.humidifierLowerOnThreshold =
                                  ToByte(@ + HUMIDIFIER_THRESHOLD_STEPS)]
    IN  IF bumped.humidifierLowerOnThreshold > bumped.humidifierUpperOffThreshold
        THEN [bumped EXCEPT !.humidifierLowerOnThreshold = HUMIDIFIER_THRESHOLD_MININUM]
        ELSE bumped

\* case humidifierLowerOnThreshold of onActionButton, before the EEPROM.put
IncrementLowerThreshold(cfg) ==
    LET bumped == [cfg EXCEPT !.humidifierLowerOnThreshold =
                                  ToByte(@ + HUMIDIFIER_THRESHOLD_STEPS)]
    IN  IF bumped.humidifierLowerOnThreshold >= bumped.humidifierUpperOffThreshold
        THEN [bumped EXCEPT !.humidifierLowerOnThreshold = HUMIDIFIER_THRESHOLD_MININUM]
        ELSE bumped

\* mutant: the upper threshold wraps once it exceeds 100 instead of 100 - step
IncrementUpperThresholdLate(cfg) ==
    LET bumped == [cfg EXCEPT !.humidifierUpperOffThreshold =
                                  ToByte(@ + HUMIDIFIER_THRESHOLD_STEPS)]
    IN  IF bumped.humidifierUpperOffThreshold > UPPER_LIMIT
        THEN [bumped EXCEPT !.humidifierUpperOffThreshold =
                 ToByte(bumped.humidifierLowerOnThreshold + HUMIDIFIER_THRESHOLD_STEPS)]
        ELSE bumped

\* case humidifierUpperOffThreshold of onActionButton, before the EEPROM.put
IncrementUpperThreshold(cfg) ==
    LET bumped == [cfg EXCEPT !.humidifierUpperOffThreshold =
                                  ToByte(@ + HUMIDIFIER_THRESHOLD_STEPS)]
    IN  IF bumped.humidifierUpperOffThreshold > UPPER_LIMIT - HUMIDIFIER_THRESHOLD_STEPS
        THEN [bumped EXCEPT !.humidifierUpperOffThreshold =
                 ToByte(bumped.humidifierLowerOnThreshold + HUMIDIFIER_THRESHOLD_STEPS)]
        ELSE bumped

\* mutant: the toggle starts from a default-constructed record
ToggleEnabledFromDefault(cfg) ==
    [DefaultConfiguration EXCEPT !.humidifierEnabled = ~cfg.humidifierEnabled]

\* case humidifierEnabled of onActionButton, before the EEPROM.put
ToggleEnabled(cfg) == [cfg EXCEPT !.humidifierEnabled = ~@]

\* mutant: the modulus counts the END marker as a mode
NextModeThroughEnd(mode) == (mode + 1) % (END + 1)

\* static_cast<DisplayMode>((currentMode + 1) % END)
NextMode(mode) == (mode + 1) % END

\* mutant: the relay turns on only strictly below the lower threshold
NextHumidifierOnStrict(on, humidity, cfg) ==
    IF ~on /\ humidity < cfg.humidifierLowerOnThreshold THEN TRUE
    ELSE IF on /\ humidity >= cfg.humidifierUpperOffThreshold THEN FALSE
    ELSE on

\* mutant: the relay state is forced off while the humidifier is disabled
NextHumidifierOnIfEnabled(on, humidity, cfg) ==
    IF ~cfg.humidifierEnabled THEN FALSE
    ELSE IF ~on /\ humidity <= cfg.humidifierLowerOnThreshold THEN TRUE
    ELSE IF on /\ humidity >= cfg.humidifierUpperOffThreshold THEN FALSE
    ELSE on

\* mutant: the two thresholds are taken the other way round
NextHumidifierOnSwapped(on, humidity, cfg) ==
    IF ~on /\ humidity <= cfg.humidifierUpperOffThreshold THEN TRUE
    ELSE IF on /\ humidity >= cfg.humidifierLowerOnThreshold THEN FALSE
    ELSE on

\* the two branches of updateRelayStatus that assign humidifierOn
NextHumidifierOn(on, humidity, cfg) ==
    IF ~on /\ humidity <= cfg.humidifierLowerOnThreshold THEN TRUE
    ELSE IF on /\ humidity >= cfg.humidifierUpperOffThreshold THEN FALSE
    ELSE on

\* digitalWrite(PIN_HUMIDIFIER_RELAY, !(humidifierOn && humidifierEnabled))
RelayPinLevel(on, cfg) ==
    IF ~(on /\ cfg.humidifierEnabled) THEN "HIGH" ELSE "LOW"

\* mutant: the difference is reduced modulo the half period
GetBlinkStatusHalfPeriod(now, anchor) ==
    ULongMod(ULongMinus(now, ToUnsignedLong(anchor)), BLINK_HALF) > BLINK_HALF

\* getBlinkStatus() when millis() returns now: the long anchor is converted to
\* unsigned long and the difference is taken modulo 2^32
GetBlinkStatus(now, anchor) ==
    ULongMod(ULongMinus(now, ToUnsignedLong(anchor)), BLINK_PERIOD) > BLINK_HALF

\* mutant: the timestamp is stored through a 16-bit int
StoreModeSelectedTimeAsInt(now) == ULong(0, now[2])

\* modeSelectedTime = millis(): unsigned long stored into a long
StoreModeSelectedTime(now) == ToLong(now)

\* DisplayData(), DisplayData(DisplayData&)
NewDisplayData == [temperature |-> 0, humidity |-> 0]

\* mutant: the copy is a default-constructed DisplayData
CopyDisplayDataDefault(data) == NewDisplayData

CopyDisplayData(data) == [temperature |-> data.temperature, humidity |-> data.humidity]

\* mutant: the flag is tested the wrong way round
NeedsMinMaxInitInverted(initialized) == initialized = TRUE

\* the one-time copy of updateSensorData: does this call initialise min and max?
NeedsMinMaxInit(initialized) == initialized = FALSE

\* the four comparisons of updateSensorData
\* mutant: the temperature comparison of the minimum is inverted
TrackMinimumInverted(minD, reading) ==
    [ temperature |-> IF reading.temperature > minD.temperature
                      THEN reading.temperature ELSE minD.temperature,
      humidity    |-> IF reading.humidity < minD.humidity
                      THEN reading.humidity ELSE minD.humidity ]

TrackMinimum(minD, reading) ==
    [ temperature |-> IF reading.temperature < minD.temperature
                      THEN reading.temperature ELSE minD.temperature,
      humidity    |-> IF reading.humidity < minD.humidity
                      THEN reading.humidity ELSE minD.humidity ]
TrackMaximum(maxD, reading) ==
    [ temperature |-> IF reading.temperature > maxD.temperature
                      THEN reading.temperature ELSE maxD.temperature,
      humidity    |-> IF reading.humidity > maxD.humidity
                      THEN reading.humidity ELSE maxD.humidity ]

\* does updateDisplay() call getBlinkStatus() in this mode?  (every mode but
\* humidifierEnabled prints through a blinking printer)
ModeBlinks(mode) == mode # humidifierEnabled

----------------------------------------------------------------------------
(* Display: eight positions, 8 leftmost and 1 rightmost. display.write sends a *)
(* position its segment bits; display.printDigit sends the driver's digits.   *)

\* segment bits written by the sketch
BLANK == 0
GLYPH_H == 55
GLYPH_U == 62
GLYPH_F == 71
GLYPH_I == 6
GLYPH_O == 126
GLYPH_n == 21
GLYPH_r == 5
GLYPH_DEGREE == 99
GLYPH_C == 78
SEGMENT_TOP == 64
SEGMENT_BOTTOM == 8

Positions == 1 .. 8

\* what a position holds: segment bits (0 .. 255), a digit of the driver's
\* font (AllSegments + 1 + digit), or the driver's rendering of the sign
\* character of a negative number
AllSegments == 2^8 - 1
Segments(bits) == bits
Digit(d) == AllSegments + 1 + d
MinusChar == Digit(10)

BlankDisplay == [p \in Positions |-> Segments(BLANK)]


\* display.printDigit(number, DISPLAY_NCHIP, startDigit): the characters of
\* String(number) right-aligned so that the last one lands on position
\* startDigit + 1; the sketch hands it numbers from -99 to 99
PrintDigit(d, number, startDigit) ==
    IF number < 0
    THEN IF number > -10
         THEN [d EXCEPT ![startDigit + 2] = MinusChar,
                        ![startDigit + 1] = Digit(-number)]
         ELSE LET digits == [d EXCEPT ![startDigit + 2] = Digit((-number) \div 10),
                                      ![startDigit + 1] = Digit((-number) % 10)]
              IN  IF startDigit + 3 \in Positions
                  THEN [digits EXCEPT ![startDigit + 3] = MinusChar]
                  ELSE digits
    ELSE IF number < 10
         THEN [d EXCEPT ![startDigit + 1] = Digit(number)]
         ELSE [d EXCEPT ![startDigit + 2] = Digit(number \div 10),
                        ![startDigit + 1] = Digit(number % 10)]

\* mutant: the higher digit is left as it was
ClearedHigherDigitKept(d, value, digit) == d

\* the branch value < 10 of printTwoDigitValue
ClearedHigherDigit(d, value, digit) ==
    IF value < 10 THEN [d EXCEPT ![digit + 2] = Segments(0)] ELSE d

\* the number printTwoDigitValue hands to display.printDigit
PrintedValue(value) ==
    IF value < 10 THEN value ELSE IF value > 99 THEN 99 ELSE value

printTwoDigitValue(d, value, digit) ==
    PrintDigit(ClearedHigherDigit(d, value, digit), PrintedValue(value), digit)

printCelsiusAndRelHumiditySigns(d) ==
    [d EXCEPT ![6] = Segments(GLYPH_DEGREE), ![5] = Segments(GLYPH_C),
              ![2] = Segments(GLYPH_r), ![1] = Segments(GLYPH_H)]

printTempHumidityMaximumSigns(d) ==
    [d EXCEPT ![6] = Segments(SEGMENT_TOP), ![5] = Segments(SEGMENT_TOP),
              ![2] = Segments(SEGMENT_TOP), ![1] = Segments(SEGMENT_TOP)]

printTempHumidityMinimumSigns(d) ==
    [d EXCEPT ![6] = Segments(SEGMENT_BOTTOM), ![5] = Segments(SEGMENT_BOTTOM),
              ![2] = Segments(SEGMENT_BOTTOM), ![1] = Segments(SEGMENT_BOTTOM)]

\* mutant: the unit signs are printed while the blink status is false
OverviewPrintsUnitsFirst(blink, signsFunction) == ~blink \/ signsFunction = "NULL"

\* getBlinkStatus() || signsFunction == NULL
OverviewPrintsUnits(blink, signsFunction) == blink \/ signsFunction = "NULL"

\* signsFunction is "NULL", "printTempHumidityMinimumSigns" or
\* "printTempHumidityMaximumSigns"
printTempAndHumidityOverview(d, data, signsFunction, blink) ==
    LET signed ==
            IF OverviewPrintsUnits(blink, signsFunction)
            THEN printCelsiusAndRelHumiditySigns(d)
            ELSE IF signsFunction = "printTempHumidityMaximumSigns"
                 THEN printTempHumidityMaximumSigns(d)
                 ELSE printTempHumidityMinimumSigns(d)
    IN  printTwoDigitValue(printTwoDigitValue(signed, data.temperature, 6),
                           data.humidity, 2)

printHumidifierConfigPrefix(d) ==
    [d EXCEPT ![8] = Segments(GLYPH_H), ![7] = Segments(GLYPH_U),
              ![6] = Segments(GLYPH_F), ![5] = Segments(GLYPH_I)]

printBooleanConfigurationStatus(d, status) ==
    IF status
    THEN [d EXCEPT ![4] = Segments(BLANK), ![3] = Segments(GLYPH_O),
                   ![2] = Segments(GLYPH_n), ![1] = Segments(BLANK)]
    ELSE [d EXCEPT ![4] = Segments(BLANK), ![3] = Segments(GLYPH_O),
                   ![2] = Segments(GLYPH_F), ![1] = Segments(GLYPH_F)]

printHumidifierConfigValueWithBlinking(d, value, blinkByte, blink) ==
    LET signed == IF blink
                  THEN [d EXCEPT ![2] = Segments(GLYPH_r), ![1] = Segments(GLYPH_H)]
                  ELSE [d EXCEPT ![2] = Segments(blinkByte), ![1] = Segments(blinkByte)]
    IN  printTwoDigitValue(signed, value, 2)

\* the switch of updateDisplay(); blink is what getBlinkStatus() returns
Render(d, mode, blink, liveD, minD, maxD, cfg) ==
    CASE mode = live ->
             printTempAndHumidityOverview(d, liveD, "NULL", blink)
      [] mode = min ->
             printTempAndHumidityOverview(d, minD, "printTempHumidityMinimumSigns", blink)
      [] mode = max ->
             printTempAndHumidityOverview(d, maxD, "printTempHumidityMaximumSigns", blink)
      [] mode = humidifierEnabled ->
             printBooleanConfigurationStatus(printHumidifierConfigPrefix(d),
                                             cfg.humidifierEnabled)
      [] mode = humidifierLowerOnThreshold ->
             printHumidifierConfigValueWithBlinking(printHumidifierConfigPrefix(d),
                 cfg.humidifierLowerOnThreshold, SEGMENT_BOTTOM, blink)
      [] mode = humidifierUpperOffThreshold ->
             printHumidifierConfigValueWithBlinking(printHumidifierConfigPrefix(d),
                 cfg.humidifierUpperOffThreshold, SEGMENT_TOP, blink)

\* the segment each of the six animation frames lights
RESET_ANIMATION_MAX == <<6, 1, 2, 3, 4, 5>>
RESET_ANIMATION_MIN == <<3, 4, 5, 6, 1, 2>>

\* presentResetAnimationWithSegments: frame i writes 1 << activeSegment[i] to
\* positions 3, 4, 7 and 8; the display after frame i
RECURSIVE AnimationFrames(_, _, _)
AnimationFrames(d, activeSegment, i) ==
    IF i = 0 THEN d
    ELSE LET bits == Segments(2 ^ activeSegment[i])
         IN  [AnimationFrames(d, activeSegment, i - 1)
                 EXCEPT ![3] = bits, ![4] = bits, ![7] = bits, ![8] = bits]

\* mutant: the two segment orders are taken for each other
ResetAnimationSegmentsSwapped(mode) ==
    CASE mode = min -> RESET_ANIMATION_MAX
      [] mode = max -> RESET_ANIMATION_MIN
      [] OTHER -> <<>>

\* presentResetAnimation: the segment order it passes on in the given mode
ResetAnimationSegments(mode) ==
    CASE mode = min -> RESET_ANIMATION_MIN
      [] mode = max -> RESET_ANIMATION_MAX
      [] OTHER -> <<>>

\* the display when presentResetAnimation returns
presentResetAnimation(d, mode) ==
    AnimationFrames(d, ResetAnimationSegments(mode), Len(ResetAnimationSegments(mode)))

\* the four positions the animation writes
FrameCells(d) == <<d[3], d[4], d[7], d[8]>>

\* what those positions show during each delay(50) of presentResetAnimation
presentedFrames(d, mode) ==
    [i \in 1 .. Len(ResetAnimationSegments(mode)) |->
        FrameCells(AnimationFrames(d, ResetAnimationSegments(mode), i))]

----------------------------------------------------------------------------
(* Inputs *)

\* rounded sensor readings delivered to updateSensorData
Temperatures == {-3, 7}
Humidities == {80, 96}
Readings == [temperature : Temperatures, humidity : Humidities]

\* the value millis() returns when a handler of Spec or SpecBoot reads the clock
ClockValues == {ULong(0, 600)}

\* the six delay(50) of presentResetAnimationWithSegments
ResetAnimationMillis == 6 * 50

----------------------------------------------------------------------------
(* Initial state: power applied, setup() not yet run *)

RamInit ==
    /\ persistentConfiguration = DefaultConfiguration
    /\ humidifierOn = FALSE
    /\ relayPin = "INPUT"
    /\ currentMode = live
    /\ modeSelectedTime = ToLong(ULong(0, 0))
    /\ liveData = NewDisplayData
    /\ minData = NewDisplayData
    /\ maxData = NewDisplayData
    /\ hasInitializedMinMax = FALSE
    /\ brightness = 0
    /\ blinkShown = FALSE
    /\ setupWrites = 0
    /\ callParity = 0
    /\ display = BlankDisplay
    /\ nextSensorSampling = ULong(0, 0)
    /\ loopNow = ULong(0, 0)
    /\ loops = 0
    /\ iterLog = <<>>
    /\ lastSampleTime = ULong(0, 0)
    /\ lastRelayUpdate = <<>>
    /\ minSince = NewDisplayData
    /\ maxSince = NewDisplayData
    /\ framesShown = <<>>

Init ==
    /\ pc = "boot"
    /\ eeprom \in InitialEeprom
    /\ RamInit

----------------------------------------------------------------------------
(* Actions *)

\* the variables of loop(): its timestamp, its sampling gate and what the
\* iteration did
loopVars == <<nextSensorSampling, loopNow, loops, iterLog, lastSampleTime,
              lastRelayUpdate>>

\* a handler has been called once more
countCall == callParity' = 1 - callParity

\* updateDisplay() on the display d when millis() returns now
updateDisplayOn(d, now, mode) ==
    LET blink == GetBlinkStatus(now, modeSelectedTime') IN
    /\ blinkShown' = IF ModeBlinks(mode) THEN blink ELSE blinkShown
    /\ display' = Render(d, mode, blinkShown', liveData', minData', maxData',
                         persistentConfiguration')

updateDisplay(now, mode) == updateDisplayOn(display, now, mode)

setup ==
    /\ pc = "boot"
    /\ LET r == LoadConfiguration(eeprom) IN
         /\ eeprom' = r[1]
         /\ persistentConfiguration' = r[2]
         /\ setupWrites' = r[3]
    /\ relayPin' = "LOW"
    /\ pc' = "loop"
    /\ UNCHANGED <<humidifierOn, currentMode, modeSelectedTime, liveData, minData,
                   maxData, hasInitializedMinMax, brightness, blinkShown, callParity,
                   display, loopVars, minSince, maxSince>>
    /\ framesShown' = <<>>

\* the configuration after the action button is handled in the given mode
ConfigurationAfterAction(mode, cfg) ==
    CASE mode = humidifierEnabled -> ToggleEnabled(cfg)
      [] mode = humidifierLowerOnThreshold -> IncrementLowerThreshold(cfg)
      [] mode = humidifierUpperOffThreshold -> IncrementUpperThreshold(cfg)
      [] OTHER -> cfg

\* does onActionButton call EEPROM.put in this mode?
ActionPersists(mode) ==
    mode \in {humidifierEnabled, humidifierLowerOnThreshold, humidifierUpperOffThreshold}

\* mutant: case min falls through to case max
ActionResetsMaxInMin(mode) == mode \in {min, max}

\* the cases of onActionButton that reset max and min
ActionResetsMax(mode) == mode = max
ActionResetsMin(mode) == mode = min

\* the brightness toggle of case live
ToggleBrightness(b) == IF b = 0 THEN BRIGHT_LEVEL ELSE 0

\* the callback onActionButton when millis() returns now at its first render
onActionButtonCall(now) ==
    /\ countCall
    /\ brightness' = IF currentMode = live THEN ToggleBrightness(brightness)
                     ELSE brightness
    /\ maxData' = IF ActionResetsMax(currentMode) THEN CopyDisplayData(liveData)
                  ELSE maxData
    /\ minData' = IF ActionResetsMin(currentMode) THEN CopyDisplayData(liveData)
                  ELSE minData
    /\ maxSince' = IF ActionResetsMax(currentMode) THEN liveData ELSE maxSince
    /\ minSince' = IF ActionResetsMin(currentMode) THEN liveData ELSE minSince
    /\ persistentConfiguration' =
           ConfigurationAfterAction(currentMode, persistentConfiguration)
    /\ eeprom' = IF ActionPersists(currentMode)
                 THEN EepromPut(persistentConfiguration')
                 ELSE eeprom
    /\ UNCHANGED <<modeSelectedTime, humidifierOn, relayPin, currentMode, liveData,
                   hasInitializedMinMax, setupWrites>>
    \* min and max render, animate for 300 ms, and render again
    /\ IF currentMode \in {min, max}
       THEN LET rendered == Render(display, currentMode,
                                   GetBlinkStatus(now, modeSelectedTime),
                                   liveData, minData', maxData',
                                   persistentConfiguration)
            IN  /\ framesShown' = presentedFrames(rendered, currentMode)
                /\ updateDisplayOn(presentResetAnimation(rendered, currentMode),
                                   ULongPlus(now, ResetAnimationMillis), currentMode)
       ELSE /\ framesShown' = <<>>
            /\ updateDisplay(now, currentMode)

onActionButton(now) ==
    /\ pc = "loop"
    /\ onActionButtonCall(now)
    /\ UNCHANGED <<pc, loopVars>>

\* the callback onNextModeButton when millis() returns now
onNextModeButtonCall(now) ==
    /\ countCall
    /\ currentMode' = NextMode(currentMode)
    /\ modeSelectedTime' = StoreModeSelectedTime(now)
    /\ UNCHANGED <<eeprom, persistentConfiguration, humidifierOn, relayPin,
                   liveData, minData, maxData, hasInitializedMinMax, brightness,
                   setupWrites, minSince, maxSince>>
    /\ framesShown' = <<>>
    /\ updateDisplay(now, currentMode')

onNextModeButton(now) ==
    /\ pc = "loop"
    /\ onNextModeButtonCall(now)
    /\ UNCHANGED <<pc, loopVars>>

\* the least and the greatest of two readings, component by component
LeastOf(a, b) ==
    [ temperature |-> IF b.temperature < a.temperature THEN b.temperature
                      ELSE a.temperature,
      humidity |-> IF b.humidity < a.humidity THEN b.humidity ELSE a.humidity ]
GreatestOf(a, b) ==
    [ temperature |-> IF b.temperature > a.temperature THEN b.temperature
                      ELSE a.temperature,
      humidity |-> IF b.humidity > a.humidity THEN b.humidity ELSE a.humidity ]

\* updateSensorData() when the sensor delivers reading
updateSensorDataCall(reading) ==
    /\ liveData' = reading
    /\ LET first == NeedsMinMaxInit(hasInitializedMinMax)
           minD == IF first THEN CopyDisplayData(reading) ELSE minData
           maxD == IF first THEN CopyDisplayData(reading) ELSE maxData
       IN  /\ minData' = TrackMinimum(minD, reading)
           /\ maxData' = TrackMaximum(maxD, reading)
    /\ hasInitializedMinMax' = TRUE
    /\ minSince' = IF hasInitializedMinMax THEN LeastOf(minSince, reading) ELSE reading
    /\ maxSince' = IF hasInitializedMinMax THEN GreatestOf(maxSince, reading) ELSE reading

\* updateRelayStatus() when liveData.humidity is humidity
updateRelayStatusCall(humidity) ==
    /\ humidifierOn' = NextHumidifierOn(humidifierOn, humidity, persistentConfiguration)
    /\ relayPin' = RelayPinLevel(humidifierOn', persistentConfiguration)

\* a loop() iteration that takes a sample: updateSensorData(), updateRelayStatus()
\* and the trailing updateDisplay(). Spec, SpecBoot and SpecBlink take time as
\* an input of each handler and let a sample be due at any iteration; the
\* sampling gate is part of the loop() steps below.
sampleSensor(now, reading) ==
    /\ pc = "loop"
    /\ countCall
    /\ updateSensorDataCall(reading)
    /\ updateRelayStatusCall(liveData'.humidity)
    /\ UNCHANGED <<pc, eeprom, persistentConfiguration, currentMode, brightness,
                   setupWrites, modeSelectedTime, loopVars>>
    /\ framesShown' = <<>>
    /\ updateDisplay(now, currentMode)

\* a loop() iteration with no button event and no sampling due: updateDisplay()
renderOnly(now) ==
    /\ pc = "loop"
    /\ countCall
    /\ UNCHANGED <<pc, eeprom, persistentConfiguration, humidifierOn, relayPin,
                   currentMode, liveData, minData, maxData,
                   hasInitializedMinMax, brightness, setupWrites, modeSelectedTime,
                   loopVars, minSince, maxSince>>
    /\ framesShown' = <<>>
    /\ updateDisplay(now, currentMode)

\* power is removed and applied again: RAM is reinitialised, the EEPROM keeps
\* its contents
powerCycle ==
    /\ pc = "loop"
    /\ pc' = "boot"
    /\ UNCHANGED eeprom
    /\ persistentConfiguration' = DefaultConfiguration
    /\ humidifierOn' = FALSE
    /\ relayPin' = "INPUT"
    /\ currentMode' = live
    /\ modeSelectedTime' = ToLong(ULong(0, 0))
    /\ liveData' = NewDisplayData
    /\ minData' = NewDisplayData
    /\ maxData' = NewDisplayData
    /\ hasInitializedMinMax' = FALSE
    /\ brightness' = 0
    /\ blinkShown' = FALSE
    /\ setupWrites' = 0
    /\ callParity' = 0
    /\ display' = BlankDisplay
    /\ nextSensorSampling' = ULong(0, 0)
    /\ loopNow' = ULong(0, 0)
    /\ loops' = 0
    /\ iterLog' = <<>>
    /\ lastSampleTime' = ULong(0, 0)
    /\ lastRelayUpdate' = <<>>
    /\ minSince' = NewDisplayData
    /\ maxSince' = NewDisplayData
    /\ framesShown' = <<>>

\* One power session of a new device (erased EEPROM): setup(), then loop()
\* iterations delivering button events and sensor samples in any order.
InitNew == Init /\ eeprom = ErasedEeprom

Next ==
    \/ setup
    \/ \E now \in ClockValues : onActionButton(now)
    \/ \E now \in ClockValues : onNextModeButton(now)
    \/ \E now \in ClockValues : renderOnly(now)
    \/ \E now \in ClockValues, reading \in Readings : sampleSensor(now, reading)

Spec == InitNew /\ [][Next]_vars

\* Power sessions of a device whose EEPROM may hold anything at first: setup(),
\* button events, and power cycles; no sensor sample is due.
NextBoot ==
    \/ setup
    \/ \E now \in ClockValues : onActionButton(now)
    \/ \E now \in ClockValues : onNextModeButton(now)
    \/ powerCycle

SpecBoot == Init /\ [][NextBoot]_vars

\* The blink phase over the clock's range: setup(), then mode changes and
\* renders at times around the half-period boundaries, the 32-bit wrap of
\* millis() included.
BlinkJitter == 1
BlinkBases == {ULong(0, 0), ULong(Word - 1, Word - 700)}
BlinkOffsets == {h * BLINK_HALF + j : h \in 0 .. 3, j \in 0 .. BlinkJitter}
                  \cup {h * BLINK_HALF - j : h \in 1 .. 3, j \in 0 .. BlinkJitter}
BlinkClockValues == {ULongPlus(base, offset) : base \in BlinkBases, offset \in BlinkOffsets}

NextBlink ==
    \/ setup
    \/ \E now \in BlinkClockValues : onNextModeButton(now)
    \/ \E now \in BlinkClockValues : renderOnly(now)

SpecBlink == Init /\ [][NextBlink]_vars

----------------------------------------------------------------------------
(* loop() step by step, with its timestamps *)

\* delay(2) at the top of loop()
LOOP_DELAY == 2
\* sensor.getMinimumSamplingPeriod() of a DHT22
MINIMUM_SAMPLING_PERIOD == 2000

\* a > b for unsigned long values
ULongGreater(a, b) == a[1] > b[1] \/ (a[1] = b[1] /\ a[2] > b[2])

\* now > nextSensorSampling
SamplingDue(now, next) == ULongGreater(now, next)

\* mutant: updateRelayStatus() is called whether or not a sample was taken
AfterGateRelayAlways(due) == IF due THEN "updateSensorData" ELSE "updateRelayStatus"

\* where loop() continues after the test of the sampling gate
AfterGate(due) == IF due THEN "updateSensorData" ELSE "updateDisplay"

\* the variables the callbacks and the sampling work on
handlerVars == <<eeprom, persistentConfiguration, humidifierOn, relayPin, currentMode,
                 modeSelectedTime, liveData, minData, maxData, hasInitializedMinMax,
                 brightness, blinkShown, setupWrites, callParity, display,
                 minSince, maxSince>>

\* loop() iterations modelled per power session
MaxLoops == 4

\* milliseconds from one loop() timestamp to the next: the delay(2) alone, or
\* an iteration that starts just after a sampling period has gone by
LoopDeltas == {LOOP_DELAY, MINIMUM_SAMPLING_PERIOD + 1}

\* delay(2); unsigned long now = millis();
beginLoop(delta) ==
    /\ pc = "loop"
    /\ loops < MaxLoops
    /\ loops' = loops + 1
    /\ loopNow' = ULongPlus(loopNow, delta)
    /\ iterLog' = <<>>
    /\ pc' = "buttonAction"
    /\ UNCHANGED <<handlerVars, nextSensorSampling, lastSampleTime, lastRelayUpdate>>
    /\ framesShown' = <<>>

\* buttonAction.process(now): the callback runs if the button was released
processActionButton(pressed) ==
    /\ pc = "buttonAction"
    /\ pc' = "buttonNextMode"
    /\ IF pressed THEN onActionButtonCall(loopNow)
       ELSE UNCHANGED handlerVars /\ framesShown' = <<>>
    /\ UNCHANGED loopVars

\* buttonNextModeButton.process(now)
processNextModeButton(pressed) ==
    /\ pc = "buttonNextMode"
    /\ pc' = "samplingGate"
    /\ IF pressed THEN onNextModeButtonCall(loopNow)
       ELSE UNCHANGED handlerVars /\ framesShown' = <<>>
    /\ UNCHANGED loopVars

\* if (now > nextSensorSampling) { nextSensorSampling = now + period; ...
samplingGate ==
    /\ pc = "samplingGate"
    /\ LET due == SamplingDue(loopNow, nextSensorSampling) IN
         /\ nextSensorSampling' = IF due
                                  THEN ULongPlus(loopNow, MINIMUM_SAMPLING_PERIOD)
                                  ELSE nextSensorSampling
         /\ pc' = AfterGate(due)
    /\ UNCHANGED <<handlerVars, loopNow, loops, iterLog, lastSampleTime,
                   lastRelayUpdate>>
    /\ framesShown' = <<>>

\* ... updateSensorData(); ...
updateSensorData(reading) ==
    /\ pc = "updateSensorData"
    /\ pc' = "updateRelayStatus"
    /\ updateSensorDataCall(reading)
    /\ iterLog' = Append(iterLog, <<"updateSensorData", reading.humidity>>)
    /\ lastSampleTime' = loopNow
    /\ UNCHANGED <<eeprom, persistentConfiguration, humidifierOn, relayPin, currentMode,
                   modeSelectedTime, brightness, blinkShown, setupWrites, callParity,
                   display, nextSensorSampling, loopNow, loops, lastRelayUpdate>>
    /\ framesShown' = <<>>

\* ... updateRelayStatus(); }
updateRelayStatus ==
    /\ pc = "updateRelayStatus"
    /\ pc' = "updateDisplay"
    /\ updateRelayStatusCall(liveData.humidity)
    /\ iterLog' = Append(iterLog, <<"updateRelayStatus", liveData.humidity,
                                    persistentConfiguration>>)
    /\ lastRelayUpdate' = <<liveData.humidity, persistentConfiguration>>
    /\ UNCHANGED <<eeprom, persistentConfiguration, currentMode, modeSelectedTime,
                   liveData, minData, maxData, hasInitializedMinMax, brightness,
                   blinkShown, setupWrites, callParity, display, minSince, maxSince,
                   nextSensorSampling, loopNow, loops, lastSampleTime>>
    /\ framesShown' = <<>>

\* the updateDisplay() that ends loop()
finishLoop ==
    /\ pc = "updateDisplay"
    /\ pc' = "loop"
    /\ UNCHANGED <<eeprom, persistentConfiguration, humidifierOn, relayPin, currentMode,
                   modeSelectedTime, liveData, minData, maxData, hasInitializedMinMax,
                   brightness, setupWrites, callParity, minSince, maxSince, loopVars>>
    /\ framesShown' = <<>>
    /\ updateDisplay(loopNow, currentMode)

\* millis() when a long-running device is taken up, shortly before the clock
\* wraps after 2^32 ms
LoopUptimes == {ULong(Word - 1, Word - 2500)}
\* the reading the sensor delivered all that time
SteadyReadings == {[temperature |-> 7, humidity |-> 80]}

\* A new device that has run untouched at a steady reading since its first
\* power-up and has just finished the loop() iteration that sampled at uptime
LongRunning(uptime, reading) ==
    LET r == LoadConfiguration(ErasedEeprom)
        on == NextHumidifierOn(FALSE, reading.humidity, r[2])
        blink == GetBlinkStatus(uptime, ToLong(ULong(0, 0)))
    IN  /\ pc = "loop"
        /\ eeprom = r[1]
        /\ persistentConfiguration = r[2]
        /\ setupWrites = r[3]
        /\ humidifierOn = on
        /\ relayPin = RelayPinLevel(on, r[2])
        /\ currentMode = live
        /\ modeSelectedTime = ToLong(ULong(0, 0))
        /\ liveData = reading
        /\ minData = reading
        /\ maxData = reading
        /\ hasInitializedMinMax = TRUE
        /\ brightness = 0
        /\ blinkShown = blink
        /\ callParity = 0
        /\ display = Render(BlankDisplay, live, blink, reading, reading, reading, r[2])
        /\ nextSensorSampling = ULongPlus(uptime, MINIMUM_SAMPLING_PERIOD)
        /\ loopNow = uptime
        /\ loops = 0
        /\ iterLog = << <<"updateSensorData", reading.humidity>>,
                        <<"updateRelayStatus", reading.humidity, r[2]>> >>
        /\ lastSampleTime = uptime
        /\ lastRelayUpdate = <<reading.humidity, r[2]>>
        /\ minSince = reading
        /\ maxSince = reading
        /\ framesShown = <<>>

InitLoop ==
    \/ InitNew
    \/ \E uptime \in LoopUptimes, reading \in SteadyReadings : LongRunning(uptime, reading)

NextLoop ==
    \/ setup
    \/ \E delta \in LoopDeltas : beginLoop(delta)
    \/ \E pressed \in BOOLEAN : processActionButton(pressed)
    \/ \E pressed \in BOOLEAN : processNextModeButton(pressed)
    \/ samplingGate
    \/ \E reading \in Readings : updateSensorData(reading)
    \/ updateRelayStatus
    \/ finishLoop

\* loop() with its control flow and timestamps, from power-up and from a
\* long-running device near the wrap of millis().
SpecLoop == InitLoop /\ [][NextLoop]_vars

----------------------------------------------------------------------------
(* Properties *)

\* C1: in every state, between samples and right after a min or max reset as
\* well as after each sample, min <= live <= max in temperature and in humidity.
C1_ExtremaBracketLive ==
    /\ minData.temperature <= liveData.temperature
    /\ liveData.temperature <= maxData.temperature
    /\ minData.humidity <= liveData.humidity
    /\ liveData.humidity <= maxData.humidity

\* a state, after the first sample, where min, live and max have moved apart
C1_Witness ==
    /\ hasInitializedMinMax
    /\ minData.temperature < liveData.temperature
    /\ liveData.humidity < maxData.humidity
    /\ minData.humidity = liveData.humidity

\* the relay rule as the claim words it
HysteresisRule(on, humidity, lower, upper) ==
    IF ~on /\ humidity <= lower THEN TRUE
    ELSE IF on /\ humidity >= upper THEN FALSE
    ELSE on

\* the relay states after each reading of a sequence, starting from on
RECURSIVE RelayRun(_, _, _)
RelayRun(on, readings, cfg) ==
    IF readings = <<>> THEN <<>>
    ELSE LET after == NextHumidifierOn(on, Head(readings), cfg)
         IN  <<after>> \o RelayRun(after, Tail(readings), cfg)

\* C2: every relay update follows the two-threshold rule against the configured
\* thresholds: off and humidity <= lower turns on, on and humidity >= upper
\* turns off, anything else holds; with lower 80 and upper 95, starting off,
\* the readings 85, 80, 79, 81, 94, 95 give off, on, on, on, on, off.
C2_RelayHysteresis ==
    /\ RelayRun(FALSE, <<85, 80, 79, 81, 94, 95>>,
                [DefaultConfiguration EXCEPT !.humidifierLowerOnThreshold = 80,
                                             !.humidifierUpperOffThreshold = 95])
         = <<FALSE, TRUE, TRUE, TRUE, TRUE, FALSE>>
    /\ [][\A now \in ClockValues, reading \in Readings :
            sampleSensor(now, reading) =>
                humidifierOn' = HysteresisRule(humidifierOn, reading.humidity,
                                    persistentConfiguration.humidifierLowerOnThreshold,
                                    persistentConfiguration.humidifierUpperOffThreshold)]_vars

\* the relay is on with the live humidity exactly at the lower threshold
C2_Witness ==
    /\ hasInitializedMinMax
    /\ humidifierOn
    /\ liveData.humidity = persistentConfiguration.humidifierLowerOnThreshold
    /\ relayPin = "LOW"

\* C3: from the default configuration, in every reachable state the lower
\* threshold is below the upper threshold and both lie in 60 .. 100.
C3_ThresholdsOrdered ==
    /\ persistentConfiguration.humidifierLowerOnThreshold
         < persistentConfiguration.humidifierUpperOffThreshold
    /\ persistentConfiguration.humidifierLowerOnThreshold
         \in HUMIDIFIER_THRESHOLD_MININUM .. UPPER_LIMIT
    /\ persistentConfiguration.humidifierUpperOffThreshold
         \in HUMIDIFIER_THRESHOLD_MININUM .. UPPER_LIMIT

\* the thresholds as close together and as low as they get
C3_Witness ==
    /\ pc = "loop"
    /\ persistentConfiguration.humidifierLowerOnThreshold = HUMIDIFIER_THRESHOLD_MININUM
    /\ persistentConfiguration.humidifierUpperOffThreshold
         = HUMIDIFIER_THRESHOLD_MININUM + HUMIDIFIER_THRESHOLD_STEPS

\* C4: an action press in mode humidifierLowerOnThreshold sets the lower
\* threshold to lower + 2, unless that reaches or exceeds the upper threshold,
\* when it sets it to 60 (lower 98, upper 100 gives 60); the result is below
\* the upper threshold.
C4_LowerThresholdWrap ==
    /\ IncrementLowerThreshold(
           [DefaultConfiguration EXCEPT !.humidifierLowerOnThreshold = 98,
                                        !.humidifierUpperOffThreshold = 100]
       ).humidifierLowerOnThreshold = 60
    /\ [][\A now \in ClockValues :
            (onActionButton(now) /\ currentMode = humidifierLowerOnThreshold) =>
                LET lower == persistentConfiguration.humidifierLowerOnThreshold
                    upper == persistentConfiguration.humidifierUpperOffThreshold
                    after == persistentConfiguration'.humidifierLowerOnThreshold
                IN  /\ after = IF lower + 2 >= upper THEN 60 ELSE lower + 2
                    /\ after < upper
                    /\ persistentConfiguration'.humidifierUpperOffThreshold = upper]_vars

\* the lower threshold has wrapped to the floor while its mode is shown
C4_Witness ==
    /\ currentMode = humidifierLowerOnThreshold
    /\ persistentConfiguration.humidifierLowerOnThreshold = HUMIDIFIER_THRESHOLD_MININUM
    /\ EepromGet(eeprom).humidifierLowerOnThreshold = HUMIDIFIER_THRESHOLD_MININUM

\* C5: an action press in mode humidifierUpperOffThreshold sets the upper
\* threshold to upper + 2, unless that exceeds 98, when it sets it to the
\* current lower threshold + 2 (upper 98 wraps to lower + 2).
C5_UpperThresholdWrap ==
    /\ \A lower \in {60, 80, 96} :
         IncrementUpperThreshold(
             [DefaultConfiguration EXCEPT !.humidifierLowerOnThreshold = lower,
                                          !.humidifierUpperOffThreshold = 98]
         ).humidifierUpperOffThreshold = lower + 2
    /\ [][\A now \in ClockValues :
            (onActionButton(now) /\ currentMode = humidifierUpperOffThreshold) =>
                LET lower == persistentConfiguration.humidifierLowerOnThreshold
                    upper == persistentConfiguration.humidifierUpperOffThreshold
                    after == persistentConfiguration'.humidifierUpperOffThreshold
                IN  /\ after = IF upper + 2 > 98 THEN lower + 2 ELSE upper + 2
                    /\ persistentConfiguration'.humidifierLowerOnThreshold = lower]_vars

\* the upper threshold has wrapped down to lower + 2 while its mode is shown
C5_Witness ==
    /\ currentMode = humidifierUpperOffThreshold
    /\ persistentConfiguration.humidifierUpperOffThreshold < DEFAULT_UPPER
    /\ persistentConfiguration.humidifierUpperOffThreshold
         = persistentConfiguration.humidifierLowerOnThreshold + HUMIDIFIER_THRESHOLD_STEPS

\* the cyclic order of the modes as the claim lists it
ModeAfter(mode) ==
    CASE mode = live -> min
      [] mode = min -> max
      [] mode = max -> humidifierEnabled
      [] mode = humidifierEnabled -> humidifierLowerOnThreshold
      [] mode = humidifierLowerOnThreshold -> humidifierUpperOffThreshold
      [] mode = humidifierUpperOffThreshold -> live

\* the mode after six next-mode presses
SixPresses(mode) == NextMode(NextMode(NextMode(NextMode(NextMode(NextMode(mode))))))

\* C6: currentMode is always one of the six modes; a next-mode press moves it
\* to its successor in the order live, min, max, humidifierEnabled,
\* humidifierLowerOnThreshold, humidifierUpperOffThreshold, live; no other
\* step changes it, so six presses return to the original mode.
C6_ModeCycle ==
    /\ [](currentMode \in {live, min, max, humidifierEnabled,
                           humidifierLowerOnThreshold, humidifierUpperOffThreshold}
          /\ SixPresses(currentMode) = currentMode)
    /\ [][IF \E now \in ClockValues : onNextModeButton(now)
          THEN currentMode' = ModeAfter(currentMode)
          ELSE currentMode' = currentMode]_vars

\* back in mode live after next-mode presses, with samples taken and an
\* action press made on the way
C6_Witness ==
    /\ currentMode = live
    /\ modeSelectedTime # ToLong(ULong(0, 0))
    /\ hasInitializedMinMax
    /\ persistentConfiguration # DefaultConfiguration

\* the default record as the claim lists it
IsDefaultRecord(record) ==
    /\ ToUnsignedInt(record.magicNumber) = 47806
    /\ record.humidifierEnabled = TRUE
    /\ record.humidifierLowerOnThreshold = 80
    /\ record.humidifierUpperOffThreshold = 96

\* C7: when setup() finds a stored magic number other than the sentinel, the
\* stored record and the in-memory configuration both become the default record
\* (sentinel, enabled, 80, 96), and setup() run again on that store loads the
\* same values and writes nothing.
C7_MagicRecovery ==
    [][(setup /\ ToUnsignedInt(EepromGet(eeprom).magicNumber) # 47806) =>
          /\ IsDefaultRecord(persistentConfiguration')
          /\ IsDefaultRecord(EepromGet(eeprom'))
          /\ setupWrites' = 1
          /\ LoadConfiguration(eeprom') = <<eeprom', persistentConfiguration', 0>>]_vars

\* setup() has just replaced an invalid stored record by the defaults
C7_Witness ==
    /\ pc = "loop"
    /\ setupWrites = 1
    /\ relayPin = "LOW"
    /\ IsDefaultRecord(EepromGet(eeprom))
    /\ IsDefaultRecord(persistentConfiguration)

\* C8: after setup() the stored record always equals the in-memory
\* configuration; a power cycle followed by setup() restores the configuration
\* that was in memory before it; setup() leaves the EEPROM alone when the
\* stored magic number is valid.
C8_PersistedEqualsMemory ==
    /\ [](pc = "loop" => EepromGet(eeprom) = persistentConfiguration)
    /\ [][powerCycle =>
            LoadConfiguration(eeprom') = <<eeprom, persistentConfiguration, 0>>]_vars
    /\ [][(setup /\ ToUnsignedInt(EepromGet(eeprom).magicNumber) = 47806) =>
            /\ eeprom' = eeprom
            /\ setupWrites' = 0
            /\ persistentConfiguration' = EepromGet(eeprom)]_vars

\* setup() has reloaded, without writing, a configuration edited before the
\* power cycle (no mode change has been made since power came back)
C8_Witness ==
    /\ pc = "loop"
    /\ setupWrites = 0
    /\ currentMode = live
    /\ modeSelectedTime = ToLong(ULong(0, 0))
    /\ ~IsDefaultRecord(persistentConfiguration)
    /\ persistentConfiguration.humidifierEnabled = FALSE
    /\ persistentConfiguration.humidifierLowerOnThreshold = 82

\* C9: the first sensor sample sets min = max = live = the reading, whatever
\* buttons were pressed before; every later sample only lowers min and raises
\* max component by component, it never copies the reading again.
C9_FirstSampleInitializes ==
    [][\A now \in ClockValues, reading \in Readings :
          sampleSensor(now, reading) =>
              /\ liveData' = reading
              /\ hasInitializedMinMax'
              /\ ~hasInitializedMinMax => (minData' = reading /\ maxData' = reading)
              /\ hasInitializedMinMax =>
                    /\ minData'.temperature =
                         IF reading.temperature < minData.temperature
                         THEN reading.temperature ELSE minData.temperature
                    /\ minData'.humidity =
                         IF reading.humidity < minData.humidity
                         THEN reading.humidity ELSE minData.humidity
                    /\ maxData'.temperature =
                         IF reading.temperature > maxData.temperature
                         THEN reading.temperature ELSE maxData.temperature
                    /\ maxData'.humidity =
                         IF reading.humidity > maxData.humidity
                         THEN reading.humidity ELSE maxData.humidity]_vars

\* a later sample has been taken and min, max were not overwritten by it
C9_Witness ==
    /\ hasInitializedMinMax
    /\ minData.temperature < liveData.temperature
    /\ minData.humidity < liveData.humidity
    /\ liveData.humidity = maxData.humidity
    /\ currentMode = live
    /\ modeSelectedTime = ToLong(ULong(0, 0))

\* the milliseconds since the anchor, as unsigned 32-bit arithmetic gives
\* them, reduced to one blink period
ElapsedInPeriod(now, anchor) == ULongMod(ULongMinus(now, anchor), 1000)

\* C10 as stated: the blink phase is false when (t - anchor) mod 1000 lies in
\* 0 .. 499 and true when it lies in 500 .. 999.
C10_BlinkPhaseAsStated ==
    [][\A now \in BlinkClockValues :
          (renderOnly(now) /\ ModeBlinks(currentMode)) =>
              /\ ElapsedInPeriod(now, modeSelectedTime) \in 0 .. 499 => ~blinkShown'
              /\ ElapsedInPeriod(now, modeSelectedTime) \in 500 .. 999 => blinkShown']_vars

\* C10, amended: with t - anchor taken in unsigned 32-bit arithmetic, the
\* blink phase is false when (t - anchor) mod 1000 lies in 0 .. 500 and true
\* when it lies in 501 .. 999.
C10_BlinkPhase ==
    [][\A now \in BlinkClockValues :
          (renderOnly(now) /\ ModeBlinks(currentMode)) =>
              /\ ElapsedInPeriod(now, modeSelectedTime) \in 0 .. 500 => ~blinkShown'
              /\ ElapsedInPeriod(now, modeSelectedTime) \in 501 .. 999 => blinkShown']_vars

\* a render has shown the second half of the cycle in a mode selected at a
\* time shortly before millis() wraps
C10_Witness ==
    /\ blinkShown
    /\ currentMode = max
    /\ modeSelectedTime = ToLong(ULong(Word - 1, Word - 700 + BLINK_HALF))

\* a reading limited to 0 .. 99
ClampTwoDigits(value) == IF value < 0 THEN 0 ELSE IF value > 99 THEN 99 ELSE value

\* the two positions left of the signs show the two decimal digits of value
ShowsTwoDigits(d, digit, value) ==
    /\ d[digit + 2] = Digit(value \div 10)
    /\ d[digit + 1] = Digit(value % 10)

\* C11: the two-digit renderer shows a value limited to 0 .. 99 as two digits:
\* above 99 it shows 99, below 0 it shows 00, and below 10 it shows a tens
\* digit 0 (7 as 07); here for the live reading of the most recent sample
\* as mode live renders it.
C11_TwoDigitClamp ==
    (pc = "loop" /\ currentMode = live /\ hasInitializedMinMax) =>
        /\ ShowsTwoDigits(display, 6, ClampTwoDigits(liveData.temperature))
        /\ ShowsTwoDigits(display, 2, ClampTwoDigits(liveData.humidity))

\* C12: at the end of every loop() iteration after the first sensor sample, the
\* relay pin is LOW (relay driven) exactly when humidifierOn and
\* humidifierEnabled are both true; in particular it is not LOW while
\* humidifierEnabled is false.
C12_RelayDrivenIffOnAndEnabled ==
    (pc = "loop" /\ loops > 0 /\ hasInitializedMinMax) =>
        (relayPin = "LOW" <=>
            (humidifierOn /\ persistentConfiguration.humidifierEnabled))

\* the sign positions 6, 5 and 2, 1 show the unit glyphs degree, C and r, H
UnitSigns(d) ==
    /\ d[6] = Segments(GLYPH_DEGREE) /\ d[5] = Segments(GLYPH_C)
    /\ d[2] = Segments(GLYPH_r) /\ d[1] = Segments(GLYPH_H)

\* the sign positions all show the given marker
MarkerSigns(d, bits) ==
    /\ d[6] = Segments(bits) /\ d[5] = Segments(bits)
    /\ d[2] = Segments(bits) /\ d[1] = Segments(bits)

\* the marker glyph of mode min is the bottom segment, of mode max the top one
MarkerOf(mode) == IF mode = min THEN SEGMENT_BOTTOM ELSE SEGMENT_TOP

C14_ExtremaSinceReset ==
    hasInitializedMinMax => (minData = minSince /\ maxData = maxSince)

\* several readings have been tracked and mode min is shown: min holds the
\* live reading and max a greater one in both components
C14_Witness ==
    /\ hasInitializedMinMax
    /\ currentMode = min
    /\ minData.temperature < maxData.temperature
    /\ minData.humidity < maxData.humidity
    /\ minData = liveData

\* C15: an action press in mode min sets min to the current live reading and
\* leaves max, live, the configuration, the mode and humidifierOn unchanged; an
\* action press in mode max sets max to the current live reading and leaves
\* min, live, the configuration, the mode and humidifierOn unchanged; in no
\* other mode does an action press change min or max.
C15_ResetFrame ==
    [][\A now \in ClockValues :
          onActionButton(now) =>
              /\ currentMode = min =>
                    /\ minData' = liveData
                    /\ UNCHANGED <<maxData, liveData, persistentConfiguration,
                                   currentMode, humidifierOn>>
              /\ currentMode = max =>
                    /\ maxData' = liveData
                    /\ UNCHANGED <<minData, liveData, persistentConfiguration,
                                   currentMode, humidifierOn>>
              /\ currentMode \notin {min, max} => UNCHANGED <<minData, maxData>>]_vars

\* mode max is shown with max equal to the live reading, which lies above min
\* in both components
C15_Witness ==
    /\ hasInitializedMinMax
    /\ currentMode = max
    /\ maxData = liveData
    /\ minData.temperature < liveData.temperature
    /\ minData.humidity < liveData.humidity

\* the step changes no field of the configuration but, possibly, the named one
OnlyEnabledMayChange ==
    persistentConfiguration' =
        [persistentConfiguration EXCEPT
            !.humidifierEnabled = persistentConfiguration'.humidifierEnabled]
OnlyLowerMayChange ==
    persistentConfiguration' =
        [persistentConfiguration EXCEPT
            !.humidifierLowerOnThreshold =
                persistentConfiguration'.humidifierLowerOnThreshold]
OnlyUpperMayChange ==
    persistentConfiguration' =
        [persistentConfiguration EXCEPT
            !.humidifierUpperOffThreshold =
                persistentConfiguration'.humidifierUpperOffThreshold]

\* once setup() has run, the configuration and the persisted record change
\* only through an action press in a configuration mode: a step that changes
\* either is such a press, and is no action press in live, min or max, no
\* next-mode press and no sensor sample
ConfigurationChangesOnlyByAction ==
    (pc = "loop" /\ (persistentConfiguration' # persistentConfiguration
                     \/ eeprom' # eeprom)) =>
        /\ ActionPersists(currentMode)
        /\ \E now \in ClockValues : onActionButton(now)
        /\ \A now \in ClockValues : ~onNextModeButton(now)
        /\ \A now \in ClockValues, reading \in Readings : ~sampleSensor(now, reading)

\* C16 as stated: the configuration changes only through an action press in a
\* configuration mode, and each such press changes exactly one field: in mode
\* humidifierEnabled the boolean and nothing else, in mode
\* humidifierLowerOnThreshold the lower threshold and nothing else, in mode
\* humidifierUpperOffThreshold the upper threshold and nothing else; other
\* presses and sensor samples leave the configuration and the persisted
\* record unchanged.
C16_ConfigurationFrameAsStated ==
    [][/\ ConfigurationChangesOnlyByAction
       /\ \A now \in ClockValues :
             (ActionPersists(currentMode) /\ onActionButton(now)) =>
                 /\ currentMode = humidifierEnabled =>
                       /\ OnlyEnabledMayChange
                       /\ persistentConfiguration'.humidifierEnabled
                            # persistentConfiguration.humidifierEnabled
                 /\ currentMode = humidifierLowerOnThreshold =>
                       /\ OnlyLowerMayChange
                       /\ persistentConfiguration'.humidifierLowerOnThreshold
                            # persistentConfiguration.humidifierLowerOnThreshold
                 /\ currentMode = humidifierUpperOffThreshold =>
                       /\ OnlyUpperMayChange
                       /\ persistentConfiguration'.humidifierUpperOffThreshold
                            # persistentConfiguration.humidifierUpperOffThreshold]_vars

\* C16, amended: the configuration changes only through an action press in a
\* configuration mode, and each such press changes at most one field: in mode
\* humidifierEnabled the boolean flips and nothing else changes, in mode
\* humidifierLowerOnThreshold no field but the lower threshold changes, in
\* mode humidifierUpperOffThreshold no field but the upper threshold changes
\* (a threshold that wraps onto the value it had is left as it was); other
\* presses and sensor samples leave the configuration and the persisted
\* record unchanged.
C16_ConfigurationFrame ==
    [][/\ ConfigurationChangesOnlyByAction
       /\ \A now \in ClockValues :
             (ActionPersists(currentMode) /\ onActionButton(now)) =>
                 /\ currentMode = humidifierEnabled =>
                       /\ OnlyEnabledMayChange
                       /\ persistentConfiguration'.humidifierEnabled
                            # persistentConfiguration.humidifierEnabled
                 /\ currentMode = humidifierLowerOnThreshold => OnlyLowerMayChange
                 /\ currentMode = humidifierUpperOffThreshold => OnlyUpperMayChange]_vars

\* the lower threshold is shown for changing while it can only wrap onto
\* itself: lower is at the minimum and upper one step above it, with the
\* humidifier disabled
C16_Witness ==
    /\ currentMode = humidifierLowerOnThreshold
    /\ persistentConfiguration.humidifierLowerOnThreshold = HUMIDIFIER_THRESHOLD_MININUM
    /\ persistentConfiguration.humidifierUpperOffThreshold
         = HUMIDIFIER_THRESHOLD_MININUM + HUMIDIFIER_THRESHOLD_STEPS
    /\ ~persistentConfiguration.humidifierEnabled
    /\ eeprom = EepromPut(persistentConfiguration)

C18_SameReadingNoToggle ==
    [][(/\ updateRelayStatus
        /\ lastRelayUpdate = <<liveData.humidity, persistentConfiguration>>
        /\ persistentConfiguration.humidifierLowerOnThreshold
             < persistentConfiguration.humidifierUpperOffThreshold)
       => humidifierOn' = humidifierOn]_vars

\* a later iteration of a session spent in mode live has sampled and updated
\* the relay again, on the one reading seen so far, and the relay is on
C18_Witness ==
    /\ pc = "updateDisplay"
    /\ loops > 1
    /\ Len(iterLog) = 2
    /\ currentMode = live
    /\ minData = maxData
    /\ lastRelayUpdate = <<liveData.humidity, persistentConfiguration>>
    /\ humidifierOn

\* C19: every sensor sample is followed in the same loop() iteration by exactly
\* one relay update, which works on that sample's humidity and on the
\* configuration current at that moment, and the relay is not updated in an
\* iteration that takes no sample: the calls of an iteration are none, or
\* updateSensorData then updateRelayStatus, the second still to come only
\* while the iteration stands between the two.
C19_SampleThenRelayUpdate ==
    \/ iterLog = <<>>
    \/ /\ pc = "updateRelayStatus"
       /\ iterLog = << <<"updateSensorData", liveData.humidity>> >>
    \/ /\ pc \in {"updateDisplay", "loop"}
       /\ iterLog = << <<"updateSensorData", liveData.humidity>>,
                       <<"updateRelayStatus", liveData.humidity,
                         persistentConfiguration>> >>

\* an iteration has ended in which the action button disabled the humidifier
\* and a sample and the relay update followed
C19_Witness ==
    /\ pc = "loop"
    /\ loops > 1
    /\ Len(iterLog) = 2
    /\ ~persistentConfiguration.humidifierEnabled
    /\ relayPin = "HIGH"
    /\ currentMode = humidifierEnabled

\* a >= n for an unsigned long a and 0 <= n < 2^16
ULongAtLeast(a, n) == a[1] > 0 \/ a[2] >= n

\* C20: any two consecutive sensor samples are taken at loop() timestamps that
\* differ by at least the sensor's minimum sampling period, whatever the
\* timestamps are (unsigned 32-bit milliseconds).
C20_SamplingPeriod ==
    [][\A reading \in Readings :
          (updateSensorData(reading) /\ hasInitializedMinMax) =>
              ULongAtLeast(ULongMinus(loopNow, lastSampleTime),
                           MINIMUM_SAMPLING_PERIOD)]_vars

\* C21: a next-mode press sets modeSelectedTime to the current time, so that
\* the render of that press (and any render up to half a period later, the
\* wrap of millis() included) sees blink phase false; no other step, an action
\* press or a sensor sample in particular, changes modeSelectedTime.
C21_AnchorOnModeChange ==
    /\ \A now \in BlinkClockValues, drift \in 0 .. BLINK_HALF :
          ~GetBlinkStatus(ULongPlus(now, drift), StoreModeSelectedTime(now))
    /\ [][/\ modeSelectedTime' # modeSelectedTime => processNextModeButton(TRUE)
          /\ processNextModeButton(TRUE) =>
                /\ modeSelectedTime' = ToLong(loopNow)
                /\ ModeBlinks(currentMode') => ~blinkShown'
          /\ (pc \in {"buttonAction", "updateSensorData"}) =>
                UNCHANGED modeSelectedTime]_vars

\* the next-mode button has just selected mode min on a device whose clock is
\* about to wrap: the anchor is the loop timestamp and the phase shown is false
C21_Witness ==
    /\ pc = "samplingGate"
    /\ currentMode = min
    /\ modeSelectedTime = ToLong(loopNow)
    /\ loopNow[1] = Word - 1
    /\ ~blinkShown

\* what updateDisplay() puts on a display that showed nothing before, in the
\* current mode, data and configuration and the blink phase last read
RenderingOfState ==
    Render(BlankDisplay, currentMode, blinkShown, liveData, minData, maxData,
           persistentConfiguration)

\* the step is a call of one of the two button callbacks
ButtonHandlerStep ==
    \E now \in ClockValues : onActionButton(now) \/ onNextModeButton(now)

\* C22: when a button handler returns, the eight display positions hold exactly
\* the rendering of the resulting state: nothing the display showed before, a
\* frame of the reset animation on positions 3, 4, 7 and 8 or a glyph of the
\* mode shown before, is left. (Stated by contraposition: a step that leaves
\* anything else on the display is not a button handler.)
C22_DisplayAfterButton ==
    [][display' # RenderingOfState' => ~ButtonHandlerStep]_vars

\* an action press in mode min has just presented the reset animation and
\* returned: positions 3 and 4 show the humidity, 7 the temperature below 10
\* and 8 is blank, where the last frame had lit one segment on all four
C22_Witness ==
    /\ currentMode = min
    /\ Len(framesShown) = 6
    /\ hasInitializedMinMax
    /\ minData.temperature = 7
    /\ display = RenderingOfState
    /\ display[8] = Segments(BLANK)
    /\ framesShown[6] # FrameCells(display)

\* the frame that lights the one segment with the given number on positions
\* 3, 4, 7 and 8
SegmentFrame(segment) ==
    <<Segments(2 ^ segment), Segments(2 ^ segment),
      Segments(2 ^ segment), Segments(2 ^ segment)>>

\* C23: frames of the reset animation are presented only by the step that
\* handles an action press in mode min or max, and every such press presents
\* exactly six frames, each lighting one single segment on positions 3, 4, 7
\* and 8 alike, in segment order 6,1,2,3,4,5 for max and 3,4,5,6,1,2 for min;
\* all six belong to that one step, which takes no sensor sample and handles
\* no next-mode press.
C23_ResetAnimation ==
    [][/\ framesShown' # <<>> =>
             /\ processActionButton(TRUE)
             /\ currentMode \in {min, max}
             /\ framesShown' =
                    [i \in 1 .. 6 |->
                        SegmentFrame(IF currentMode = max
                                     THEN <<6, 1, 2, 3, 4, 5>>[i]
                                     ELSE <<3, 4, 5, 6, 1, 2>>[i])]
             /\ UNCHANGED <<currentMode, modeSelectedTime, liveData,
                            hasInitializedMinMax, humidifierOn, relayPin,
                            iterLog, lastSampleTime, nextSensorSampling>>
       /\ (pc = "buttonAction" /\ callParity' # callParity
              /\ currentMode \in {min, max}) => Len(framesShown') = 6]_vars

\* an action press in mode max has just presented its six frames, the top
\* segment (bit 6) first and bit 5 last
C23_Witness ==
    /\ pc = "buttonNextMode"
    /\ currentMode = max
    /\ Len(framesShown) = 6
    /\ framesShown[1] = SegmentFrame(6)
    /\ framesShown[6] = SegmentFrame(5)

====
